---- MODULE Spec2Model ----
(***************************************************************************)
(* Model of device/device.go: the Device connection lifecycle (Connect,    *)
(* Disconnect, IsConnected) and the interface registry (AddInterface,      *)
(* RemoveInterface).                                                       *)
(*                                                                         *)
(* Every Connect call starts one goroutine.  The goroutines share the      *)
(* Device fields m (the MQTT client), interfaces and AutoReconnect without *)
(* any lock, so each action below holds one access to shared state plus    *)
(* the local computation around it.  The pairing and transport             *)
(* collaborators are the environment: the result of each of their calls is *)
(* an input chosen with \E.                                                *)
(***************************************************************************)
EXTENDS Integers, Sequences, FiniteSets, TLC

\* ------------------------------------------------------------------ bounds

\* Number of Connect calls issued on the device (one goroutine each).
MaxConnects == 2

\* Number of failed broker resolutions one handshake may see.
MaxResolveFails == 2

\* Number of temporary directories, and of devices, the constructors may make.
MaxConstructions == 2

\* ------------------------------------------------------- program constants

\* time.Sleep(30 * time.Second) between two broker resolutions.
RetryInterval == 30

\* connectToken.WaitTimeout(30 * time.Second).
ConnectTimeout == 30

\* ------------------------------------------------------------------ values

Tasks == 1..MaxConnects

\* The nil value of d.m; a client created by goroutine t is named t.
NoClient == 0

Names == {"a", "b"}

\* A device ID is a string, held as the sequence of its characters.
Rep(c, n) == [k \in 1..n |-> c]

\* The URL-safe base64 alphabet.
Base64URL ==
    {"A", "B", "C", "D", "E", "F", "G", "H", "I", "J", "K", "L", "M",
     "N", "O", "P", "Q", "R", "S", "T", "U", "V", "W", "X", "Y", "Z",
     "a", "b", "c", "d", "e", "f", "g", "h", "i", "j", "k", "l", "m",
     "n", "o", "p", "q", "r", "s", "t", "u", "v", "w", "x", "y", "z",
     "0", "1", "2", "3", "4", "5", "6", "7", "8", "9", "-", "_"}

\* A device ID is 128 bits in unpadded URL-safe base64: 22 characters.
DeviceIDLen == 22

\* misc.IsValidAstarteDeviceID
IsValidAstarteDeviceID(id) ==
    /\ Len(id) = DeviceIDLen
    /\ \A k \in 1..Len(id) : id[k] \in Base64URL

\* The device IDs offered to the constructors: two well-formed ones, then a
\* short one, a long one, the empty one, and two with a character outside
\* the alphabet.
DeviceIDs ==
    { Rep("A", 22),
      [Rep("z", 22) EXCEPT ![1] = "-", ![22] = "_"],
      Rep("A", 21),
      Rep("A", 23),
      << >>,
      [Rep("A", 22) EXCEPT ![7] = "+"],
      [Rep("A", 22) EXCEPT ![22] = "/"] }

\* The directories offered to NewDeviceWithPersistency.
PersistencyDirs == {"dirA", "dirB"}

\* The directory ioutil.TempDir makes.
TempDir == "tmp"

\* The legal values of the enumerated fields of an interface.
AggregationValues == {"individual", "object"}
TypeValues == {"datastream", "properties"}
OwnershipValues == {"device", "server"}
ReliabilityValues == {"unreliable", "guaranteed", "unique"}
RetentionValues == {"discard", "volatile", "stored"}
DatabaseRetentionPolicyValues == {"no_ttl", "use_ttl"}

Mapping(rel, ret, dbret) ==
    [Reliability |-> rel, Retention |-> ret, DatabaseRetentionPolicy |-> dbret]

AstarteInterface(name, major, agg, typ, own, maps) ==
    [Name |-> name, MajorVersion |-> major, Aggregation |-> agg, Type |-> typ,
     Ownership |-> own, Mappings |-> maps]

\* The interfaces the caller offers to AddInterface while connecting: a valid
\* one and one with an illegal aggregation.
ConnectInputs ==
    { AstarteInterface("a", 1, "individual", "datastream", "device",
                       <<Mapping("unreliable", "discard", "no_ttl")>>),
      AstarteInterface("a", 1, "bogus", "datastream", "device",
                       <<Mapping("unreliable", "discard", "no_ttl")>>) }

VARIABLES
    deviceID,       \* Device.deviceID of the device built last
    persistencyDir, \* Device.persistencyDir of the device built last
    tempDirs,       \* number of directories ioutil.TempDir created
    apiClients,     \* number of pairing API clients created
    newResult,      \* what the last constructor call returned
    addResult,      \* what the last AddInterface call returned
    AutoReconnect,  \* Device.AutoReconnect
    interfaces,     \* Device.interfaces: name -> interface
    m,              \* Device.m: NoClient or the client in use
    connected,      \* connected[c]: the transport's live status of client c
    panicked,       \* the process died of a nil dereference
    pc,             \* pc[t]: position of goroutine t in Connect
    err,            \* err[t]: the local err of the broker loop is not nil
    token,          \* token[t]: state of connectToken
    tokenClient,    \* tokenClient[t]: the client connectToken belongs to
    elapsed,        \* elapsed[t]: time units goroutine t spent sleeping or timing out
    auto,           \* auto[t]: the values AutoReconnect had while goroutine t ran
    log             \* log[t]: what goroutine t did so far, in order

\* What the constructors write.
construction == <<deviceID, persistencyDir, tempDirs, apiClients, newResult>>

vars == <<construction, addResult, AutoReconnect, interfaces, m, connected, panicked,
          pc, err, token, tokenClient, elapsed, auto, log>>

shared == <<AutoReconnect, interfaces, m, connected, panicked>>

\* ----------------------------------------------------------------- helpers

\* Number of entries of sequence s that are in set S.
RECURSIVE Count(_, _)
Count(s, S) ==
    IF s = <<>> THEN 0
    ELSE (IF Head(s) \in S THEN 1 ELSE 0) + Count(Tail(s), S)

\* The entries of sequence s that are in set S, in order.
Only(s, S) == SelectSeq(s, LAMBDA e : e \in S)

Has(s, e) == \E i \in 1..Len(s) : s[i] = e

\* What a goroutine sends on the result channel.
Outcomes ==
    {"send:nil", "send:ErrNoInterfaces", "send:ErrBroker", "send:ErrCertificate",
     "send:ErrInitialize", "send:ErrConnect", "send:ErrTimeout",
     "send:ErrSubscriptions", "send:ErrIntrospection"}

\* The values received on the result channel of Connect call t, in order.
\* The caller is receiving on the channel, so a send completes in the step
\* that makes it.
Delivered(t) == Only(log[t], Outcomes)

\* Goroutine t does the steps es and goes to position p.
Step(t, p, es) ==
    /\ pc' = [pc EXCEPT ![t] = p]
    /\ log' = [log EXCEPT ![t] = @ \o es]

\* ------------------------------------------------------------- IsConnected

\* Mutant of IsConnected: a client that exists counts as connected.
IsConnected_ClientExists == m # NoClient

\* IsConnected: false without a client, else the client's live status.
IsConnected == IF m # NoClient THEN connected[m] ELSE FALSE

\* -------------------------------------------------------------------- Init

\* The fields of a Device right after new(Device) and newDevice's assignments,
\* with the goroutines not started.
Fresh ==
    /\ addResult = "none"
    /\ AutoReconnect \in BOOLEAN
    /\ interfaces = << >>
    /\ m = NoClient
    /\ connected = [c \in Tasks |-> FALSE]
    /\ panicked = FALSE
    /\ pc = [t \in Tasks |-> "idle"]
    /\ err = [t \in Tasks |-> FALSE]
    /\ token = [t \in Tasks |-> "none"]
    /\ tokenClient = [t \in Tasks |-> NoClient]
    /\ elapsed = [t \in Tasks |-> 0]
    /\ auto = [t \in Tasks |-> {}]
    /\ log = [t \in Tasks |-> << >>]

\* A device built by NewDeviceWithPersistency with a well-formed ID.
Init ==
    /\ Fresh
    /\ deviceID = Rep("A", 22)
    /\ persistencyDir = "dirA"
    /\ tempDirs = 0
    /\ apiClients = 1
    /\ newResult = "device"

\* ------------------------------------------------------------ constructors

\* No constructor was called yet.
InitNew ==
    /\ Fresh
    /\ deviceID = << >>
    /\ persistencyDir = ""
    /\ tempDirs = 0
    /\ apiClients = 0
    /\ newResult = "none"

\* newDevice: check the ID, build the Device, create the pairing API client.
newDevice(id, dir, urlOk) ==
    IF ~IsValidAstarteDeviceID(id)
    THEN /\ newResult' = "ErrInvalidDeviceID"
         /\ UNCHANGED <<deviceID, persistencyDir, apiClients>>
    ELSE IF ~urlOk
    THEN /\ newResult' = "ErrClient"
         /\ UNCHANGED <<deviceID, persistencyDir, apiClients>>
    ELSE /\ apiClients < MaxConstructions
         /\ apiClients' = apiClients + 1
         /\ deviceID' = id
         /\ persistencyDir' = dir
         /\ newResult' = "device"

\* The part of the state no constructor writes.
device == <<addResult, AutoReconnect, interfaces, m, connected, panicked,
            pc, err, token, tokenClient, elapsed, auto, log>>

\* NewDevice: make a temporary directory named after the ID, then newDevice.
NewDevice(id, tmpErr, urlOk) ==
    /\ IF tmpErr
       THEN /\ newResult' = "ErrTempDir"
            /\ UNCHANGED <<deviceID, persistencyDir, tempDirs, apiClients>>
       ELSE /\ tempDirs < MaxConstructions
            /\ tempDirs' = tempDirs + 1
            /\ newDevice(id, TempDir, urlOk)
    /\ UNCHANGED device

\* NewDeviceWithPersistency: newDevice with the caller's directory.
NewDeviceWithPersistency(id, dir, urlOk) ==
    /\ newDevice(id, dir, urlOk)
    /\ UNCHANGED <<tempDirs, device>>

NextNew ==
    \/ \E id \in DeviceIDs, tmpErr, urlOk \in BOOLEAN : NewDevice(id, tmpErr, urlOk)
    \/ \E id \in DeviceIDs, dir \in PersistencyDirs, urlOk \in BOOLEAN :
          NewDeviceWithPersistency(id, dir, urlOk)

SpecNew == InitNew /\ [][NextNew]_vars

\* ----------------------------------------------------------------- Connect

\* Connect(result): start the goroutine; a nil channel ends it at once.
Connect(t, usable) ==
    /\ ~panicked
    /\ pc[t] = "idle"
    /\ \A u \in Tasks : u < t => pc[u] # "idle"
    /\ IF usable
       THEN Step(t, "IsConnected", << >>)
       ELSE Step(t, "done", <<"nilchan">>)
    /\ auto' = [auto EXCEPT ![t] = {AutoReconnect}]
    /\ UNCHANGED <<shared, err, token, tokenClient, elapsed>>
    /\ UNCHANGED <<construction, addResult>>

\* Mutant of CheckConnected: the return after result <- nil is missing.
CheckConnected_NoReturn(t) ==
    /\ ~panicked
    /\ pc[t] = "IsConnected"
    /\ IF IsConnected
       THEN Step(t, "interfaces", <<"connected:true", "send:nil">>)
       ELSE Step(t, "interfaces", <<"connected:false">>)
    /\ UNCHANGED <<shared, err, token, tokenClient, elapsed, auto>>
    /\ UNCHANGED <<construction, addResult>>

\* Mutant of CheckConnected: one handshake at a time, the check waits while
\* another goroutine is past its own check and has not ended.
CheckConnected_SingleFlight(t) ==
    /\ ~panicked
    /\ pc[t] = "IsConnected"
    /\ \A u \in Tasks \ {t} : pc[u] \in {"idle", "IsConnected", "done"}
    /\ IF IsConnected
       THEN Step(t, "done", <<"connected:true", "send:nil">>)
       ELSE Step(t, "interfaces", <<"connected:false">>)
    /\ UNCHANGED <<shared, err, token, tokenClient, elapsed, auto>>
    /\ UNCHANGED <<construction, addResult>>

\* "Are we connected already?"
CheckConnected(t) ==
    /\ ~panicked
    /\ pc[t] = "IsConnected"
    /\ IF IsConnected
       THEN Step(t, "done", <<"connected:true", "send:nil">>)
       ELSE Step(t, "interfaces", <<"connected:false">>)
    /\ UNCHANGED <<shared, err, token, tokenClient, elapsed, auto>>
    /\ UNCHANGED <<construction, addResult>>

\* Mutant of CheckInterfaces: the return after the error is missing.
CheckInterfaces_NoReturn(t) ==
    /\ ~panicked
    /\ pc[t] = "interfaces"
    /\ IF DOMAIN interfaces = {}
       THEN Step(t, "getBrokerURL", <<"send:ErrNoInterfaces">>)
       ELSE Step(t, "getBrokerURL", << >>)
    /\ UNCHANGED <<shared, err, token, tokenClient, elapsed, auto>>
    /\ UNCHANGED <<construction, addResult>>

\* "At least one interface available?"
CheckInterfaces(t) ==
    /\ ~panicked
    /\ pc[t] = "interfaces"
    /\ IF DOMAIN interfaces = {}
       THEN Step(t, "done", <<"send:ErrNoInterfaces">>)
       ELSE Step(t, "getBrokerURL", << >>)
    /\ UNCHANGED <<shared, err, token, tokenClient, elapsed, auto>>
    /\ UNCHANGED <<construction, addResult>>

\* A failed resolution is an input only while the handshake saw fewer than
\* MaxResolveFails of them.
ResolveResults(t) ==
    IF Count(log[t], {"resolve:err"}) < MaxResolveFails
    THEN {TRUE, FALSE} ELSE {TRUE}

\* Where the broker loop goes after a resolution: with err == nil neither
\* condition of the loop reads AutoReconnect and the loop breaks.
AfterResolve(ok, retry) == IF ok THEN "ensureCertificate" ELSE retry

\* brokerURL, err := d.getBrokerURL()
GetBrokerURL(t) ==
    /\ ~panicked
    /\ pc[t] = "getBrokerURL"
    /\ \E ok \in ResolveResults(t) :
         /\ err' = [err EXCEPT ![t] = ~ok]
         /\ Step(t, AfterResolve(ok, "loopRetry"),
                 <<IF ok THEN "resolve:ok" ELSE "resolve:err">>)
    /\ UNCHANGED <<shared, token, tokenClient, elapsed, auto>>
    /\ UNCHANGED <<construction, addResult>>

\* What the first condition of the loop does when it holds: sleep, then
\* resolve again.
Retry(ok) == <<"sleep", IF ok THEN "resolve:ok" ELSE "resolve:err">>

\* Mutant of Sleep: the retry does not wait.
Sleep_None(t) == elapsed

\* time.Sleep(30 * time.Second)
Sleep(t) == [elapsed EXCEPT ![t] = @ + RetryInterval]

\* Mutant of LoopRetry: the retry does not look at AutoReconnect.
LoopRetry_Always(t) ==
    /\ ~panicked
    /\ pc[t] = "loopRetry"
    /\ err[t]
    /\ \E ok \in ResolveResults(t) :
         /\ elapsed' = [elapsed EXCEPT ![t] = @ + RetryInterval]
         /\ err' = [err EXCEPT ![t] = ~ok]
         /\ Step(t, AfterResolve(ok, "loopFail"), Retry(ok))
    /\ UNCHANGED <<shared, token, tokenClient, auto>>
    /\ UNCHANGED <<construction, addResult>>

\* if err != nil && d.AutoReconnect { time.Sleep(30s); d.getBrokerURL() }
LoopRetry(t) ==
    /\ ~panicked
    /\ pc[t] = "loopRetry"
    /\ err[t]
    /\ IF AutoReconnect
       THEN \E ok \in ResolveResults(t) :
              /\ elapsed' = Sleep(t)
              /\ err' = [err EXCEPT ![t] = ~ok]
              /\ Step(t, AfterResolve(ok, "loopFail"), Retry(ok))
       ELSE /\ Step(t, "loopFail", << >>)
            /\ UNCHANGED <<err, elapsed>>
    /\ UNCHANGED <<shared, token, tokenClient, auto>>
    /\ UNCHANGED <<construction, addResult>>

\* if err != nil && !d.AutoReconnect { result <- err; return }; else loop
LoopFail(t) ==
    /\ ~panicked
    /\ pc[t] = "loopFail"
    /\ err[t]
    /\ IF ~AutoReconnect
       THEN Step(t, "done", <<"send:ErrBroker">>)
       ELSE Step(t, "loopRetry", << >>)
    /\ UNCHANGED <<shared, err, token, tokenClient, elapsed, auto>>
    /\ UNCHANGED <<construction, addResult>>

\* Mutant of EnsureCertificate: a failure is retried under AutoReconnect.
EnsureCertificate_Retry(t) ==
    /\ ~panicked
    /\ pc[t] = "ensureCertificate"
    /\ \E ok \in BOOLEAN :
         IF ok
         THEN Step(t, "initializeMQTTClient", <<"certificate:ok">>)
         ELSE IF AutoReconnect /\ Count(log[t], {"certificate:err"}) = 0
         THEN Step(t, "ensureCertificate", <<"certificate:err">>)
         ELSE Step(t, "done", <<"certificate:err", "send:ErrCertificate">>)
    /\ UNCHANGED <<shared, err, token, tokenClient, elapsed, auto>>
    /\ UNCHANGED <<construction, addResult>>

\* if err := d.ensureCertificate(); err != nil { result <- err; return }
EnsureCertificate(t) ==
    /\ ~panicked
    /\ pc[t] = "ensureCertificate"
    /\ \E ok \in BOOLEAN :
         IF ok
         THEN Step(t, "initializeMQTTClient", <<"certificate:ok">>)
         ELSE Step(t, "done", <<"certificate:err", "send:ErrCertificate">>)
    /\ UNCHANGED <<shared, err, token, tokenClient, elapsed, auto>>
    /\ UNCHANGED <<construction, addResult>>

\* initializeMQTTClient builds a new client and stores it in d.m.
NewClient(t) == t

\* if err := d.initializeMQTTClient(brokerURL); err != nil { result <- err; return }
InitializeMQTTClient(t) ==
    /\ ~panicked
    /\ pc[t] = "initializeMQTTClient"
    /\ \E ok \in BOOLEAN :
         IF ok
         THEN /\ m' = NewClient(t)
              /\ Step(t, "connect", <<"initialize:ok">>)
         ELSE /\ UNCHANGED m
              /\ Step(t, "done", <<"initialize:err", "send:ErrInitialize">>)
    /\ UNCHANGED <<AutoReconnect, interfaces, connected, panicked,
                   err, token, tokenClient, elapsed, auto>>
    /\ UNCHANGED <<construction, addResult>>

\* connectToken := d.m.Connect(); if d.AutoReconnect { ... } else { ... }
TransportConnect(t) ==
    /\ ~panicked
    /\ pc[t] = "connect"
    /\ token' = [token EXCEPT ![t] = "pending"]
    /\ tokenClient' = [tokenClient EXCEPT ![t] = m]
    /\ IF AutoReconnect
       THEN Step(t, "Wait", <<"connect">>)
       ELSE Step(t, "WaitTimeout", <<"connect">>)
    /\ UNCHANGED <<shared, err, elapsed, auto>>
    /\ UNCHANGED <<construction, addResult>>

\* The transport finishes the handshake of connectToken, with or without
\* an error.
TransportHandshake(t, ok) ==
    /\ ~panicked
    /\ token[t] = "pending"
    /\ token' = [token EXCEPT ![t] = IF ok THEN "ok" ELSE "error"]
    /\ connected' = IF ok THEN [connected EXCEPT ![tokenClient[t]] = TRUE]
                    ELSE connected
    /\ UNCHANGED <<AutoReconnect, interfaces, m, panicked,
                   pc, err, tokenClient, elapsed, auto, log>>
    /\ UNCHANGED <<construction, addResult>>

\* What the AutoReconnect branch does once Wait returns.
AfterWait(tok) ==
    IF tok = "error" THEN <<"wait:error", "send:ErrConnect">> ELSE <<"wait:ok">>

\* if connectToken.Wait() && connectToken.Error() != nil { result <- Error() }
Wait(t) ==
    /\ ~panicked
    /\ pc[t] = "Wait"
    /\ token[t] # "pending"
    /\ Step(t, "setupSubscriptions", AfterWait(token[t]))
    /\ UNCHANGED <<shared, err, token, tokenClient, elapsed, auto>>
    /\ UNCHANGED <<construction, addResult>>

\* Mutant of WaitTimeout: the return after the timeout error is missing.
WaitTimeout_NoReturn(t) ==
    /\ ~panicked
    /\ pc[t] = "WaitTimeout"
    /\ IF token[t] = "pending"
       THEN /\ elapsed' = [elapsed EXCEPT ![t] = @ + ConnectTimeout]
            /\ Step(t, "setupSubscriptions", <<"timeout", "send:ErrTimeout">>)
       ELSE /\ UNCHANGED elapsed
            /\ Step(t, "setupSubscriptions",
                    <<IF token[t] = "error" THEN "wait:error" ELSE "wait:ok">>)
    /\ UNCHANGED <<shared, err, token, tokenClient, auto>>
    /\ UNCHANGED <<construction, addResult>>

\* if ok := connectToken.WaitTimeout(30s); !ok { result <- timeout; return }
WaitTimeout(t) ==
    /\ ~panicked
    /\ pc[t] = "WaitTimeout"
    /\ IF token[t] = "pending"
       THEN /\ elapsed' = [elapsed EXCEPT ![t] = @ + ConnectTimeout]
            /\ Step(t, "done", <<"timeout", "send:ErrTimeout">>)
       ELSE /\ UNCHANGED elapsed
            /\ Step(t, "setupSubscriptions",
                    <<IF token[t] = "error" THEN "wait:error" ELSE "wait:ok">>)
    /\ UNCHANGED <<shared, err, token, tokenClient, auto>>
    /\ UNCHANGED <<construction, addResult>>

\* d.m.Disconnect: the transport closes the connection of the client in use.
TransportDisconnect == [connected EXCEPT ![m] = FALSE]

\* Mutant of SetupSubscriptions: the failure does not disconnect.
SetupSubscriptions_NoDisconnect(t) ==
    /\ ~panicked
    /\ pc[t] = "setupSubscriptions"
    /\ \E ok \in BOOLEAN :
         IF ok
         THEN Step(t, "sendIntrospection", <<"subscriptions:ok">>)
         ELSE Step(t, "done", <<"subscriptions:err", "send:ErrSubscriptions">>)
    /\ UNCHANGED <<shared, err, token, tokenClient, elapsed, auto>>
    /\ UNCHANGED <<construction, addResult>>

\* if err := d.setupSubscriptions(); err != nil { Disconnect; result <- err; return }
SetupSubscriptions(t) ==
    /\ ~panicked
    /\ pc[t] = "setupSubscriptions"
    /\ \E ok \in BOOLEAN :
         IF ok
         THEN /\ Step(t, "sendIntrospection", <<"subscriptions:ok">>)
              /\ UNCHANGED connected
         ELSE /\ connected' = TransportDisconnect
              /\ Step(t, "done",
                      <<"subscriptions:err", "disconnect", "send:ErrSubscriptions">>)
    /\ UNCHANGED <<AutoReconnect, interfaces, m, panicked,
                   err, token, tokenClient, elapsed, auto>>
    /\ UNCHANGED <<construction, addResult>>

\* Mutant of SendIntrospection: the return after the error is missing, so
\* nil follows the error.
SendIntrospection_NoReturn(t) ==
    /\ ~panicked
    /\ pc[t] = "sendIntrospection"
    /\ \E ok \in BOOLEAN :
         IF ok
         THEN /\ Step(t, "done", <<"introspection:ok", "send:nil">>)
              /\ UNCHANGED connected
         ELSE /\ connected' = TransportDisconnect
              /\ Step(t, "done",
                      <<"introspection:err", "disconnect", "send:ErrIntrospection",
                        "send:nil">>)
    /\ UNCHANGED <<AutoReconnect, interfaces, m, panicked,
                   err, token, tokenClient, elapsed, auto>>
    /\ UNCHANGED <<construction, addResult>>

\* if err := d.sendIntrospection(); err != nil { ... }; result <- nil
SendIntrospection(t) ==
    /\ ~panicked
    /\ pc[t] = "sendIntrospection"
    /\ \E ok \in BOOLEAN :
         IF ok
         THEN /\ Step(t, "done", <<"introspection:ok", "send:nil">>)
              /\ UNCHANGED connected
         ELSE /\ connected' = TransportDisconnect
              /\ Step(t, "done",
                      <<"introspection:err", "disconnect", "send:ErrIntrospection">>)
    /\ UNCHANGED <<AutoReconnect, interfaces, m, panicked,
                   err, token, tokenClient, elapsed, auto>>
    /\ UNCHANGED <<construction, addResult>>

\* -------------------------------------------------------------- Disconnect

\* Disconnect: d.m.Disconnect(2000) without a nil check.
Disconnect ==
    /\ ~panicked
    /\ IF m = NoClient
       THEN /\ panicked' = TRUE
            /\ UNCHANGED connected
       ELSE /\ connected' = TransportDisconnect
            /\ UNCHANGED panicked
    /\ UNCHANGED <<AutoReconnect, interfaces, m,
                   pc, err, token, tokenClient, elapsed, auto, log>>
    /\ UNCHANGED <<construction, addResult>>

\* ---------------------------------------------------------------- registry

IsValid(v, legal) == v \in legal

\* The checks of AddInterface, in order: nil or the first error.
Validate(i) ==
    IF ~IsValid(i.Aggregation, AggregationValues) THEN "ErrAggregation"
    ELSE IF ~IsValid(i.Type, TypeValues) THEN "ErrType"
    ELSE IF ~IsValid(i.Ownership, OwnershipValues) THEN "ErrOwnership"
    ELSE IF \E k \in 1..Len(i.Mappings) :
              \/ ~IsValid(i.Mappings[k].Reliability, ReliabilityValues)
              \/ ~IsValid(i.Mappings[k].Retention, RetentionValues)
              \/ ~IsValid(i.Mappings[k].DatabaseRetentionPolicy,
                          DatabaseRetentionPolicyValues)
         THEN "ErrMapping"
    ELSE "nil"

\* Mutant of Put: an entry that exists is kept (first write wins).
Put_KeepFirst(reg, i) ==
    [n \in DOMAIN reg \cup {i.Name} |-> IF n \in DOMAIN reg THEN reg[n] ELSE i]

\* d.interfaces[astarteInterface.Name] = astarteInterface
Put(reg, i) ==
    [n \in DOMAIN reg \cup {i.Name} |-> IF n = i.Name THEN i ELSE reg[n]]

\* Mutant of Delete: the whole registry is cleared.
Delete_All(reg, name) == IF name \in DOMAIN reg THEN << >> ELSE reg

\* delete(d.interfaces, name)
Delete(reg, name) == [n \in DOMAIN reg \ {name} |-> reg[n]]

\* Mutant of AddInterface: the mappings are checked after the insertion.
AddInterface_InsertFirst(i) ==
    /\ ~panicked
    /\ interfaces' =
          IF /\ IsValid(i.Aggregation, AggregationValues)
             /\ IsValid(i.Type, TypeValues)
             /\ IsValid(i.Ownership, OwnershipValues)
          THEN Put(interfaces, i) ELSE interfaces
    /\ UNCHANGED <<AutoReconnect, m, connected, panicked,
                   pc, err, token, tokenClient, elapsed, auto, log>>
    /\ addResult' = Validate(i)
    /\ UNCHANGED construction

\* AddInterface: validate every enumerated field, then insert or replace.
AddInterface(i) ==
    /\ ~panicked
    /\ interfaces' = IF Validate(i) = "nil" THEN Put(interfaces, i) ELSE interfaces
    /\ UNCHANGED <<AutoReconnect, m, connected, panicked,
                   pc, err, token, tokenClient, elapsed, auto, log>>
    /\ addResult' = Validate(i)
    /\ UNCHANGED construction

\* RemoveInterface: delete(d.interfaces, astarteInterface.Name)
RemoveInterface(name) ==
    /\ ~panicked
    /\ interfaces' = Delete(interfaces, name)
    /\ UNCHANGED <<AutoReconnect, m, connected, panicked,
                   pc, err, token, tokenClient, elapsed, auto, log>>
    /\ UNCHANGED <<construction, addResult>>

\* ------------------------------------------------------------- environment

\* The caller sets the public field AutoReconnect.
SetAutoReconnect(b) ==
    /\ ~panicked
    /\ AutoReconnect # b
    /\ AutoReconnect' = b
    /\ auto' = [t \in Tasks |->
                 IF pc[t] \in {"idle", "done"} THEN auto[t] ELSE auto[t] \cup {b}]
    /\ UNCHANGED <<interfaces, m, connected, panicked,
                   pc, err, token, tokenClient, elapsed, log>>
    /\ UNCHANGED <<construction, addResult>>

\* The broker or the network drops the connection of client c.
ConnectionLost(c) ==
    /\ ~panicked
    /\ connected[c]
    /\ connected' = [connected EXCEPT ![c] = FALSE]
    /\ UNCHANGED <<AutoReconnect, interfaces, m, panicked,
                   pc, err, token, tokenClient, elapsed, auto, log>>
    /\ UNCHANGED <<construction, addResult>>

\* ------------------------------------------------------------------- Next

Handshake(t) ==
    \/ CheckConnected(t)
    \/ CheckInterfaces(t)
    \/ GetBrokerURL(t)
    \/ LoopRetry(t)
    \/ LoopFail(t)
    \/ EnsureCertificate(t)
    \/ InitializeMQTTClient(t)
    \/ TransportConnect(t)
    \/ Wait(t)
    \/ WaitTimeout(t)
    \/ SetupSubscriptions(t)
    \/ SendIntrospection(t)

Next ==
    \/ \E t \in Tasks, usable \in BOOLEAN : Connect(t, usable)
    \/ \E t \in Tasks : Handshake(t)
    \/ \E t \in Tasks, ok \in BOOLEAN : TransportHandshake(t, ok)
    \/ \E c \in Tasks : ConnectionLost(c)
    \/ Disconnect
    \/ \E i \in ConnectInputs : AddInterface(i)
    \/ \E n \in Names : RemoveInterface(n)
    \/ \E b \in BOOLEAN : SetAutoReconnect(b)

Spec == Init /\ [][Next]_vars

\* ---------------------------------------------------- registry under load

\* Two mappings with legal fields.
M1 == Mapping("unreliable", "discard", "no_ttl")
M2 == Mapping("unique", "stored", "use_ttl")

\* Interfaces with every enumerated field legal: two names, two versions,
\* zero to two mappings.
ValidInputs ==
    { AstarteInterface(n, v, "individual", "datastream", "device", ms) :
        n \in Names, v \in {1, 2}, ms \in {<< >>, <<M1>>, <<M1, M2>>} }

\* Interfaces with exactly one illegal enumerated field: each interface field,
\* and each mapping field at each of two mapping positions.
InvalidInputs ==
    { AstarteInterface("a", 2, "bogus", "datastream", "device", <<M1, M2>>),
      AstarteInterface("a", 2, "object", "bogus", "device", <<M1, M2>>),
      AstarteInterface("b", 2, "object", "properties", "bogus", <<M1, M2>>) }
    \cup
    { AstarteInterface("a", 2, "individual", "datastream", "server",
                       [<<M1, M2>> EXCEPT ![k] = bad]) :
        k \in {1, 2},
        bad \in { Mapping("bogus", "discard", "no_ttl"),
                  Mapping("guaranteed", "bogus", "no_ttl"),
                  Mapping("guaranteed", "volatile", "bogus") } }

RegistryInputs == ValidInputs \cup InvalidInputs

\* The caller works on the registry with RegistryInputs while one Connect
\* call runs and the caller and the transport act on the connection.
NextRegistry ==
    \/ \E i \in RegistryInputs : AddInterface(i)
    \/ \E n \in Names : RemoveInterface(n)
    \/ Connect(1, TRUE)
    \/ Handshake(1)
    \/ \E ok \in BOOLEAN : TransportHandshake(1, ok)
    \/ ConnectionLost(1)
    \/ Disconnect

SpecRegistry == Init /\ [][NextRegistry]_vars

\* ------------------------------------------------------------ observations

\* The calls goroutine t made to the pairing collaborator.
PairingCalls == {"resolve:ok", "resolve:err", "certificate:ok", "certificate:err"}

\* The calls goroutine t made to the transport collaborator.
TransportCalls ==
    {"connect", "subscriptions:ok", "subscriptions:err",
     "introspection:ok", "introspection:err", "disconnect"}

Resolutions == {"resolve:ok", "resolve:err"}

\* Connect call t was given a usable channel and its goroutine has ended.
Ended(t) == pc[t] = "done" /\ ~Has(log[t], "nilchan")

Last(s) == s[Len(s)]

\* ------------------------------------------------------------------ claims

\* C1 (as claimed): every Connect call with a usable channel delivers exactly
\* one outcome on its channel: never two or more, and exactly one once its
\* goroutine has ended.
C1_ExactlyOneOutcome ==
    \A t \in Tasks :
        /\ Len(Delivered(t)) <= 1
        /\ Ended(t) => Len(Delivered(t)) = 1

\* C2: a goroutine that finds the device connected at its first check sends
\* nil and ends having made no collaborator call; that step leaves the client,
\* the connection status and every token as they were.
C2_AlreadyConnected ==
    [][\A t \in Tasks :
          (pc[t] = "IsConnected" /\ IsConnected /\ pc'[t] # pc[t]) =>
              /\ pc'[t] = "done"
              /\ log'[t] = <<"connected:true", "send:nil">>
              /\ m' = m
              /\ connected' = connected
              /\ token' = token
              /\ elapsed' = elapsed]_vars

C2_Witness ==
    \E t \in Tasks : pc[t] = "done" /\ log[t] = <<"connected:true", "send:nil">>

\* C3: a goroutine that finds the device not connected and the registry empty
\* sends the "no interfaces" error and ends with no call to the pairing or the
\* transport collaborator.
C3_NoInterfaces ==
    [][\A t \in Tasks :
          (pc[t] = "interfaces" /\ DOMAIN interfaces = {} /\ pc'[t] # pc[t]) =>
              /\ pc'[t] = "done"
              /\ log'[t] = <<"connected:false", "send:ErrNoInterfaces">>
              /\ Count(log'[t], PairingCalls \cup TransportCalls) = 0
              /\ m' = m
              /\ connected' = connected
              /\ token' = token]_vars

C3_Witness ==
    \E t \in Tasks :
        pc[t] = "done" /\ log[t] = <<"connected:false", "send:ErrNoInterfaces">>

\* C4: with AutoReconnect disabled all along, a handshake whose first broker
\* resolution fails makes that one attempt only, never sleeps, never reaches
\* certificate assurance or the transport connect, and ends by sending the
\* broker error alone.
C4_DisabledNoRetry ==
    \A t \in Tasks :
        ( /\ auto[t] = {FALSE}
          /\ Only(log[t], Resolutions) # << >>
          /\ Head(Only(log[t], Resolutions)) = "resolve:err" ) =>
            /\ Count(log[t], Resolutions) = 1
            /\ Count(log[t], {"sleep"}) = 0
            /\ elapsed[t] = 0
            /\ Count(log[t], {"certificate:ok", "certificate:err",
                              "initialize:ok", "initialize:err", "connect"}) = 0
            /\ pc[t] \in {"loopRetry", "loopFail", "done"}
            /\ Delivered(t) = IF pc[t] = "done" THEN <<"send:ErrBroker">> ELSE << >>

C4_Witness ==
    \E t \in Tasks :
        /\ auto[t] = {FALSE}
        /\ pc[t] = "done"
        /\ log[t] = <<"connected:false", "resolve:err", "send:ErrBroker">>

\* C5: with AutoReconnect enabled all along, a handshake whose broker
\* resolution fails k times and then succeeds has made k+1 attempts and k
\* sleeps of RetryInterval each, one right before each retry; it has sent
\* nothing for those failures and reaches certificate assurance only after
\* the successful attempt.
C5_EnabledRetries ==
    \A t \in Tasks :
        auto[t] = {TRUE} =>
            LET k == Count(log[t], {"resolve:err"})
                a == Count(log[t], Resolutions)
                sl == Count(log[t], {"sleep"})
            IN  /\ sl = IF a = 0 THEN 0 ELSE a - 1
                /\ elapsed[t] = RetryInterval * sl
                /\ \A i \in 1..Len(log[t]) :
                       (log[t][i] \in Resolutions /\ i > 2) => log[t][i - 1] = "sleep"
                /\ Has(log[t], "resolve:ok") => (a = k + 1 /\ sl = k)
                /\ (a > 0 /\ ~Has(log[t], "resolve:ok")) =>
                       /\ a = k
                       /\ Delivered(t) = << >>
                       /\ pc[t] \in {"loopRetry", "loopFail"}
                /\ pc[t] = "ensureCertificate" =>
                       (Last(log[t]) = "resolve:ok" /\ Delivered(t) = << >>)
                /\ Count(log[t], {"certificate:ok", "certificate:err"}) > 0 =>
                       Has(log[t], "resolve:ok")

C5_Witness ==
    \E t \in Tasks :
        /\ auto[t] = {TRUE}
        /\ pc[t] = "ensureCertificate"
        /\ Count(log[t], {"resolve:err"}) = MaxResolveFails
        /\ elapsed[t] = RetryInterval * MaxResolveFails

\* C6: a handshake whose certificate assurance fails has called it once, has
\* sent exactly that error, has ended, and has made no transport call, whatever
\* AutoReconnect is.
C6_CertificateTerminal ==
    \A t \in Tasks :
        Has(log[t], "certificate:err") =>
            /\ pc[t] = "done"
            /\ Count(log[t], {"certificate:ok", "certificate:err"}) = 1
            /\ Delivered(t) = <<"send:ErrCertificate">>
            /\ Last(log[t]) = "send:ErrCertificate"
            /\ Count(log[t], TransportCalls \cup {"initialize:ok", "initialize:err"}) = 0

C6_Witness ==
    \E t \in Tasks : auto[t] = {TRUE} /\ Has(log[t], "certificate:err")

\* C7: with AutoReconnect disabled the goroutine waits with WaitTimeout; if the
\* token is still pending when ConnectTimeout has passed, it sends the timeout
\* error and ends: no subscription setup, no introspection, nothing else sent.
C7_TimeoutTerminal ==
    /\ [](\A t \in Tasks :
            /\ auto[t] = {FALSE} => pc[t] # "Wait"
            /\ Has(log[t], "timeout") =>
                   /\ pc[t] = "done"
                   /\ Delivered(t) = <<"send:ErrTimeout">>
                   /\ Last(log[t]) = "send:ErrTimeout"
                   /\ Count(log[t], {"subscriptions:ok", "subscriptions:err",
                                     "introspection:ok", "introspection:err"}) = 0)
    /\ [][\A t \in Tasks :
            (pc[t] = "WaitTimeout" /\ token[t] = "pending" /\ pc'[t] # pc[t]) =>
                /\ pc'[t] = "done"
                /\ elapsed'[t] = elapsed[t] + ConnectTimeout
                /\ log'[t] = log[t] \o <<"timeout", "send:ErrTimeout">>]_vars

C7_Witness ==
    \E t \in Tasks : auto[t] = {FALSE} /\ Has(log[t], "timeout") /\ pc[t] = "done"

\* C8: the step in which subscription setup fails closes the connection of the
\* client in use, so that IsConnected is false right after it, and sends the
\* subscription error as the goroutine's last outcome; the goroutine ends
\* without publishing the introspection, and while it is the only handshake
\* issued IsConnected stays false.
C8_SubscriptionFailure ==
    /\ [](\A t \in Tasks :
            Has(log[t], "subscriptions:err") =>
                /\ pc[t] = "done"
                /\ Has(log[t], "disconnect")
                /\ Last(Delivered(t)) = "send:ErrSubscriptions"
                /\ Count(log[t], {"introspection:ok", "introspection:err"}) = 0
                /\ (\A u \in Tasks \ {t} : pc[u] = "idle") => ~IsConnected)
    /\ [][\A t \in Tasks :
            (pc[t] = "setupSubscriptions" /\ pc'[t] = "done") =>
                /\ log'[t] = log[t] \o <<"subscriptions:err", "disconnect",
                                         "send:ErrSubscriptions">>
                /\ ~connected'[m]
                /\ ~IsConnected']_vars

C8_Witness ==
    \E t \in Tasks :
        /\ Has(log[t], "wait:ok")
        /\ Has(log[t], "subscriptions:err")
        /\ \A u \in Tasks \ {t} : pc[u] = "idle"

\* C9: the step in which the introspection publish fails closes the connection
\* of the client in use and sends the introspection error as the goroutine's
\* last outcome; the goroutine ends and has never sent nil.
C9_IntrospectionFailure ==
    /\ [](\A t \in Tasks :
            Has(log[t], "introspection:err") =>
                /\ pc[t] = "done"
                /\ Has(log[t], "subscriptions:ok")
                /\ Has(log[t], "disconnect")
                /\ Last(Delivered(t)) = "send:ErrIntrospection"
                /\ ~Has(log[t], "send:nil"))
    /\ [][\A t \in Tasks :
            (pc[t] = "sendIntrospection" /\ ~Has(log'[t], "send:nil")
                                         /\ pc'[t] # pc[t]) =>
                /\ pc'[t] = "done"
                /\ log'[t] = log[t] \o <<"introspection:err", "disconnect",
                                         "send:ErrIntrospection">>
                /\ ~connected'[m]]_vars

C9_Witness ==
    \E t \in Tasks : Has(log[t], "wait:ok") /\ Has(log[t], "introspection:err")

\* A handshake of goroutine t has reached the success step.
Succeeded(t) == Has(log[t], "introspection:ok") /\ Has(log[t], "send:nil")

\* C10 (as claimed): IsConnected is false before any Connect call, and true
\* only if some handshake has reached the success step.
C10_TrueOnlyAfterSuccess ==
    /\ (\A t \in Tasks : pc[t] = "idle") => ~IsConnected
    /\ IsConnected => \E t \in Tasks : Succeeded(t)

\* C10 (amended): IsConnected is false before any Connect call, and true only
\* if the client in use was created by some handshake and the transport
\* handshake of a token on that client has completed without error.
C10_TrueOnlyAfterTransport ==
    /\ (\A t \in Tasks : pc[t] = "idle") => ~IsConnected
    /\ IsConnected =>
          /\ \E t \in Tasks : Has(log[t], "initialize:ok") /\ m = NewClient(t)
          /\ \E t \in Tasks : token[t] = "ok" /\ tokenClient[t] = m

\* IsConnected is observed true while the handshake that connected the
\* transport is still setting up subscriptions.
C10_Witness ==
    \E t \in Tasks :
        /\ pc[t] = "setupSubscriptions"
        /\ IsConnected
        /\ \A u \in Tasks : ~Succeeded(u)

\* Every enumerated field of interface i has one of its legal values.
AllLegal(i) ==
    /\ i.Aggregation \in AggregationValues
    /\ i.Type \in TypeValues
    /\ i.Ownership \in OwnershipValues
    /\ \A k \in 1..Len(i.Mappings) :
         /\ i.Mappings[k].Reliability \in ReliabilityValues
         /\ i.Mappings[k].Retention \in RetentionValues
         /\ i.Mappings[k].DatabaseRetentionPolicy \in DatabaseRetentionPolicyValues

\* C11: AddInterface with an interface that has an illegal enumerated field,
\* at any position, returns an error and leaves the registry as it was; so
\* every interface in the registry has all its enumerated fields legal and is
\* filed under its own name.
C11_AtomicAdd ==
    /\ [](\A n \in DOMAIN interfaces :
            AllLegal(interfaces[n]) /\ interfaces[n].Name = n)
    /\ [][\A i \in RegistryInputs :
            (~AllLegal(i) /\ AddInterface(i)) =>
                (addResult' # "nil" /\ interfaces' = interfaces)]_vars

\* An invalid interface was just refused by a registry that holds both names.
C11_Witness ==
    /\ addResult \notin {"none", "nil"}
    /\ DOMAIN interfaces = Names

\* C12: AddInterface with a valid interface files it under its name, in place
\* of the entry that name had, and leaves every other entry as it was: after
\* two valid additions under one name the registry holds the second.
C12_LastWriteWins ==
    [][\A i \in RegistryInputs :
          (AllLegal(i) /\ AddInterface(i)) =>
              /\ addResult' = "nil"
              /\ DOMAIN interfaces' = DOMAIN interfaces \cup {i.Name}
              /\ interfaces'[i.Name] = i
              /\ \A n \in DOMAIN interfaces \ {i.Name} :
                     interfaces'[n] = interfaces[n]]_vars

\* Name "a" holds version 2 with two mappings, which can only have replaced
\* or been replaced in turn, next to an entry for "b".
C12_Witness ==
    /\ DOMAIN interfaces = Names
    /\ interfaces["a"].MajorVersion = 2
    /\ interfaces["a"].Mappings = <<M1, M2>>
    /\ interfaces["b"].MajorVersion = 1
    /\ addResult = "nil"

\* C13: a step that takes entries out of the registry takes out one name and
\* leaves the other entries, the client, the connection status, the tokens and
\* every goroutine as they were; RemoveInterface of an absent name changes
\* nothing at all.
C13_RemoveFrame ==
    /\ [][(DOMAIN interfaces' # DOMAIN interfaces
              /\ DOMAIN interfaces' \subseteq DOMAIN interfaces) =>
            /\ \E n \in Names :
                 /\ RemoveInterface(n)
                 /\ DOMAIN interfaces' = DOMAIN interfaces \ {n}
            /\ \A k \in DOMAIN interfaces' : interfaces'[k] = interfaces[k]
            /\ UNCHANGED <<m, connected, token, tokenClient, pc, log, elapsed,
                           panicked, AutoReconnect, addResult>>]_vars
    /\ [][\A n \in Names :
            (n \notin DOMAIN interfaces /\ RemoveInterface(n)) => UNCHANGED vars]_vars

\* One of two entries was removed while the device was connected.
C13_Witness ==
    /\ DOMAIN interfaces = {"b"}
    /\ IsConnected
    /\ pc[1] = "done"

\* C14 (as claimed): a constructor called with a device ID that fails the
\* validity rule returns the invalid-device-ID error and has no side effect:
\* no directory is made, no API client is created, no device is built.
C14_InvalidIDNoSideEffects ==
    [][\A id \in DeviceIDs :
          ( /\ ~IsValidAstarteDeviceID(id)
            /\ \/ \E tmpErr, urlOk \in BOOLEAN : NewDevice(id, tmpErr, urlOk)
               \/ \E dir \in PersistencyDirs, urlOk \in BOOLEAN :
                    NewDeviceWithPersistency(id, dir, urlOk) ) =>
              /\ newResult' = "ErrInvalidDeviceID"
              /\ tempDirs' = tempDirs
              /\ apiClients' = apiClients
              /\ deviceID' = deviceID
              /\ persistencyDir' = persistencyDir]_vars

\* The errors a goroutine can send on the result channel.
Errors == Outcomes \ {"send:nil"}

\* C15 (as claimed): once the only Connect call issued so far has ended having
\* delivered an error, the device is disconnected until another Connect call
\* is issued: IsConnected is false, so the next call is not short-circuited
\* by the already-connected check.
C15_FailedLeavesDisconnected ==
    \A t \in Tasks :
        ( /\ Ended(t)
          /\ \E e \in Errors : Delivered(t) = <<e>>
          /\ \A u \in Tasks \ {t} : pc[u] = "idle" ) => ~IsConnected

\* The calls of the two steps that follow the transport connect.
AfterConnectCalls ==
    {"subscriptions:ok", "subscriptions:err", "introspection:ok", "introspection:err"}

\* C16 (as claimed): a transport handshake that completes with an error ends
\* the Connect call under either AutoReconnect setting: the goroutine has
\* ended, the connect error is the one outcome delivered, and neither
\* setupSubscriptions nor sendIntrospection was called.
C16_ConnectErrorTerminal ==
    \A t \in Tasks :
        Has(log[t], "wait:error") =>
            /\ pc[t] = "done"
            /\ Delivered(t) = <<"send:ErrConnect">>
            /\ Only(log[t], AfterConnectCalls) = << >>

\* The position of a logged event in the order of the handshake: broker
\* resolution, certificate assurance, transport connect, subscription setup,
\* introspection publish; 0 for what is not a step of the handshake.
StepRank(e) ==
    IF e \in {"resolve:ok", "resolve:err", "sleep"} THEN 1
    ELSE IF e \in {"certificate:ok", "certificate:err"} THEN 2
    ELSE IF e \in {"initialize:ok", "initialize:err", "connect",
                   "wait:ok", "wait:error", "timeout"} THEN 3
    ELSE IF e \in {"subscriptions:ok", "subscriptions:err"} THEN 4
    ELSE IF e \in {"introspection:ok", "introspection:err"} THEN 5
    ELSE 0

\* The events that say a step of the handshake completed successfully.
StepSuccesses ==
    <<"resolve:ok", "certificate:ok", "wait:ok", "subscriptions:ok", "introspection:ok">>

\* C17 (as claimed): the steps of one goroutine are logged in the order of the
\* handshake, and a goroutine that was not short-circuited by the
\* already-connected check sends nil only after broker resolution, certificate
\* assurance, transport connect, subscription setup and introspection publish
\* each completed successfully, in that order.
C17_OrderedSteps ==
    \A t \in Tasks :
        /\ \A i, j \in 1..Len(log[t]) :
              (i < j /\ StepRank(log[t][i]) > 0 /\ StepRank(log[t][j]) > 0) =>
                  StepRank(log[t][i]) <= StepRank(log[t][j])
        /\ (Has(log[t], "send:nil") /\ ~Has(log[t], "connected:true")) =>
              Only(log[t], {StepSuccesses[k] : k \in 1..Len(StepSuccesses)})
                  = StepSuccesses

\* ------------------------------------------------------------ termination

\* The scheduler runs every goroutine that can take a step, and the transport
\* finishes every handshake it was asked for (every collaborator call returns).
Fairness ==
    \A t \in Tasks :
        /\ WF_vars(Handshake(t))
        /\ WF_vars(\E ok \in BOOLEAN : TransportHandshake(t, ok))

LiveSpec == Init /\ [][Next]_vars /\ Fairness

\* Goroutine t of a Connect call is running.
InFlight(t) == pc[t] \notin {"idle", "done"}

\* C18 (as claimed): a Connect call whose goroutine is running ends, unless
\* AutoReconnect was enabled at some time during the call.
C18_DisabledTerminates ==
    \A t \in Tasks : InFlight(t) ~> (pc[t] = "done" \/ TRUE \in auto[t])

\* C18, while the process is alive: a Connect call whose goroutine is running
\* ends, unless AutoReconnect was enabled at some time during the call or a
\* Disconnect call without a client stopped the process.
C18_DisabledTerminatesWhileAlive ==
    \A t \in Tasks :
        InFlight(t) ~> (pc[t] = "done" \/ TRUE \in auto[t] \/ panicked)

\* ------------------------------------------------------------- concurrency

\* C19: nothing serialises Connect calls. A goroutine at the already-connected
\* check can always take it, wherever the other goroutines are, and every
\* successful initializeMQTTClient stores that goroutine's own new client in
\* d.m, replacing the one that was there.
C19_NoMutualExclusion ==
    /\ [](\A t \in Tasks :
            (~panicked /\ pc[t] = "IsConnected") => ENABLED CheckConnected(t))
    /\ [][\A t \in Tasks :
            (pc[t] = "initializeMQTTClient" /\ pc'[t] = "connect") =>
                m' = NewClient(t)]_vars

\* Two goroutines passed the check on a disconnected device and are both
\* running after the transport connect was invoked once by each, on two
\* clients, the second of which replaced the first in d.m.
C19_Witness ==
    /\ \A t \in Tasks :
         /\ InFlight(t)
         /\ Has(log[t], "connected:false")
         /\ Count(log[t], {"connect"}) = 1
    /\ tokenClient[1] = NewClient(1)
    /\ tokenClient[2] = NewClient(2)
    /\ m = NewClient(2)

\* ------------------------------------------------------------------ safety

\* C20 (as claimed): Disconnect never faults; without a client it leaves the
\* connection status as it was and the device disconnected, and it asks the
\* transport to disconnect only when a client exists.
C20_DisconnectSafe ==
    [][Disconnect =>
          /\ ~panicked'
          /\ m = NoClient => (connected' = connected /\ ~IsConnected')]_vars

====
